---- MODULE Spec2Model ----
(***************************************************************************)
(* Model of sql/main.go: a program that opens a database handle, pings it, *)
(* inserts one user, prints the insert outcome, queries all users, prints  *)
(* each of them and returns.  Every error is handled with log.Fatalln,     *)
(* which prints and calls os.Exit(1): the process ends at once and the     *)
(* deferred calls (db.Close, rows.Close) are not run.                      *)
(*                                                                         *)
(* The users table lives in the database and survives the process, so the  *)
(* model lets the program be started several times against the same table. *)
(***************************************************************************)
EXTENDS Integers, Sequences, FiniteSets, TLC

\* Number of times the program is started against the same database.
MaxRuns == 3

\* Column counts of the users table the runs may meet: the three columns
\* the program expects, or one more column with a default value.
ColumnCounts == {3, 4}

VARIABLES
    pc,            \* position in main
    db,            \* the *sql.DB handle: "none", "open", "closed"
    rows,          \* the *sql.Rows cursor: "none", "open", "closed"
    defers,        \* main's stack of deferred calls, in registration order
    res,           \* the sql.Result returned by Exec
    numAffected,   \* local numAffected
    lastInsertId,  \* local lastInsertId
    result,        \* the rows the cursor iterates over
    pos,           \* number of rows the cursor has advanced over
    lasterr,       \* the cursor's iteration error: "nil" or "err"
    u,             \* the User being decoded in the loop body
    stdout,        \* lines written by fmt.Println
    exitCode,      \* -1 while running, 0 after return, 1 after os.Exit(1)
    users,         \* the users table in the database
    autoInc,       \* the table's auto-increment counter
    numCols,       \* number of columns of the users table
    runs,          \* number of starts of the program so far
    \* history of the current run
    ops,           \* the calls made so far, in order
    failed,        \* the first call of this run that returned an error
    usersAtStart,  \* the users table when this run started
    decoded,       \* the Users decoded by Scan so far
    scanned,       \* for every call of Scan: the row's column count, whether
                   \* a column failed to convert, and the error returned
    dbCloses,      \* number of times the handle went from open to closed
    rowsCloses     \* number of times the cursor went from open to closed

vars == <<pc, db, rows, defers, res, numAffected, lastInsertId, result, pos,
          lasterr, u, stdout, exitCode, users, autoInc, numCols, runs, ops,
          failed, usersAtStart, decoded, scanned, dbCloses, rowsCloses>>

Errs == {"nil", "err"}

----------------------------------------------------------------------------
\* Pure helpers

\* u := &User{Username: "radovskyb", Password: "password123"}
NewUser == [Id |-> 0, Username |-> "radovskyb", Password |-> "password123"]

ExecArgs_Swapped(usr) == <<usr.Password, usr.Username>>

\* db.Exec(query, u.Username, u.Password): the two bound values, in the
\* order of the columns (username, password) of the insert statement.
ExecArgs(usr) == <<usr.Username, usr.Password>>

\* The row the database stores for the insert: the auto-assigned id, the two
\* bound values, and a default for every further column of the table.
InsertedRow(id, args, ncols) ==
    <<id, args[1], args[2]>> \o [i \in 1..(ncols - 3) |-> "default"]

NoRes == [rowsAffected |-> 0, lastInsertId |-> 0]

Digit(d) == <<"0", "1", "2", "3", "4", "5", "6", "7", "8", "9">>[d + 1]

RECURSIVE FormatInt(_)
\* fmt.Println of an int64: its decimal digits.
FormatInt(n) ==
    IF n < 10 THEN <<Digit(n)>>
    ELSE FormatInt(n \div 10) \o <<Digit(n % 10)>>

\* fmt.Println(u) of a *User: &{Id Username Password}.
FormatUser(usr) ==
    <<"&{">> \o FormatInt(usr.Id) \o <<" ", usr.Username, " ", usr.Password, "}">>

\* rows.Scan(&u.Id, &u.Username, &u.Password): the columns of the row are
\* copied by position into the three destinations.
ScanRow(row) == [Id |-> row[1], Username |-> row[2], Password |-> row[3]]

ScanErr_NoCount(row, convErr) == convErr

\* Scan fails when the number of destinations differs from the number of
\* columns; it may also fail converting a column.
ScanErr(row, convErr) == IF Len(row) # 3 THEN "err" ELSE convErr

CurrentRow_First(rs, p) == rs[1]

\* The row the cursor is positioned on after p successful calls of Next.
CurrentRow(rs, p) == rs[p]

LoopBranch_Always(ok) == "scan"

\* for rows.Next() { ... }: the body runs when Next returned true, the
\* statement after the loop when it returned false.
LoopBranch(ok) == IF ok THEN "scan" ELSE "rowsErr"

IsErr_Never(err) == FALSE

\* if err != nil
IsErr(err) == err # "nil"

Fatalln_Println(cont) == cont

\* log.Fatalln(err): prints, then os.Exit(1).  The statement after the call
\* (cont) is never reached and no deferred call is run.
Fatalln(cont) == "fatal"

RowsErr_Nil(e) == "nil"

\* rows.Err(): the error, if any, that was encountered during iteration.
RowsErr(e) == e

NextDeferred_FIFO(stack) == IF stack = <<>> THEN 0 ELSE 1

\* Deferred calls run in last-in-first-out order: the index of the next one.
NextDeferred(stack) == Len(stack)

\* The pattern  if err != nil { log.Fatalln(err) }  followed by cont.
CheckErr(err, step, cont) ==
    /\ failed' = IF err # "nil" /\ failed = "none" THEN step ELSE failed
    /\ pc' = IF IsErr(err) THEN Fatalln(cont) ELSE cont
    /\ exitCode' = IF pc' = "fatal" THEN 1 ELSE exitCode

----------------------------------------------------------------------------
Init ==
    /\ pc = "open"
    /\ db = "none"
    /\ rows = "none"
    /\ defers = <<>>
    /\ res = NoRes
    /\ numAffected = 0
    /\ lastInsertId = 0
    /\ result = <<>>
    /\ pos = 0
    /\ lasterr = "nil"
    /\ u = [Id |-> 0, Username |-> "", Password |-> ""]
    /\ stdout = <<>>
    /\ exitCode = -1
    /\ users = <<>>
    /\ autoInc = 1
    /\ numCols \in ColumnCounts
    /\ runs = 1
    /\ ops = <<>>
    /\ failed = "none"
    /\ usersAtStart = <<>>
    /\ decoded = <<>>
    /\ scanned = <<>>
    /\ dbCloses = 0
    /\ rowsCloses = 0

\* db, err := sql.Open("mysql", dsn); defer db.Close()
Open ==
    /\ pc = "open"
    /\ \E err \in Errs :
        /\ ops' = Append(ops, "open")
        /\ CheckErr(err, "open", "ping")
        /\ db' = IF err = "nil" THEN "open" ELSE "none"
        /\ defers' = IF pc' = "ping" THEN Append(defers, "db") ELSE defers
    /\ UNCHANGED <<rows, res, numAffected, lastInsertId, result, pos, lasterr,
                   u, stdout, users, autoInc, numCols, runs, usersAtStart,
                   decoded, scanned, dbCloses, rowsCloses>>

\* if err := db.Ping(); err != nil { log.Fatalln(err) }
Ping ==
    /\ pc = "ping"
    /\ \E err \in Errs :
        /\ ops' = Append(ops, "ping")
        /\ CheckErr(err, "ping", "exec")
    /\ UNCHANGED <<db, rows, defers, res, numAffected, lastInsertId, result,
                   pos, lasterr, u, stdout, users, autoInc, numCols, runs,
                   usersAtStart, decoded, scanned, dbCloses, rowsCloses>>

\* res, err := db.Exec(query, u.Username, u.Password)
Exec ==
    /\ pc = "exec"
    /\ \E err \in Errs :
        /\ ops' = Append(ops, "exec")
        /\ CheckErr(err, "exec", "rowsAffected")
        /\ IF err = "nil"
           THEN /\ users' = Append(users,
                                   InsertedRow(autoInc, ExecArgs(NewUser), numCols))
                /\ autoInc' = autoInc + 1
                /\ res' = [rowsAffected |-> 1, lastInsertId |-> autoInc]
           ELSE /\ UNCHANGED <<users, autoInc>>
                /\ res' = NoRes
    /\ UNCHANGED <<db, rows, defers, numAffected, lastInsertId, result, pos,
                   lasterr, u, stdout, numCols, runs, usersAtStart, decoded, scanned,
                   dbCloses, rowsCloses>>

\* numAffected, err := res.RowsAffected()
RowsAffected ==
    /\ pc = "rowsAffected"
    /\ \E err \in Errs :
        /\ ops' = Append(ops, "rowsAffected")
        /\ CheckErr(err, "rowsAffected", "printAffected")
        /\ numAffected' = IF err = "nil" THEN res.rowsAffected ELSE 0
    /\ UNCHANGED <<db, rows, defers, res, lastInsertId, result, pos, lasterr,
                   u, stdout, users, autoInc, numCols, runs, usersAtStart,
                   decoded, scanned, dbCloses, rowsCloses>>

\* fmt.Println(numAffected)
PrintAffected ==
    /\ pc = "printAffected"
    /\ ops' = Append(ops, "printAffected")
    /\ stdout' = Append(stdout, FormatInt(numAffected))
    /\ pc' = "lastInsertId"
    /\ UNCHANGED <<db, rows, defers, res, numAffected, lastInsertId, result,
                   pos, lasterr, u, exitCode, users, autoInc, numCols, runs,
                   failed, usersAtStart, decoded, scanned, dbCloses, rowsCloses>>

\* lastInsertId, err := res.LastInsertId()
LastInsertId ==
    /\ pc = "lastInsertId"
    /\ \E err \in Errs :
        /\ ops' = Append(ops, "lastInsertId")
        /\ CheckErr(err, "lastInsertId", "printId")
        /\ lastInsertId' = IF err = "nil" THEN res.lastInsertId ELSE 0
    /\ UNCHANGED <<db, rows, defers, res, numAffected, result, pos, lasterr,
                   u, stdout, users, autoInc, numCols, runs, usersAtStart,
                   decoded, scanned, dbCloses, rowsCloses>>

\* fmt.Println(lastInsertId)
PrintId ==
    /\ pc = "printId"
    /\ ops' = Append(ops, "printId")
    /\ stdout' = Append(stdout, FormatInt(lastInsertId))
    /\ pc' = "query"
    /\ UNCHANGED <<db, rows, defers, res, numAffected, lastInsertId, result,
                   pos, lasterr, u, exitCode, users, autoInc, numCols, runs,
                   failed, usersAtStart, decoded, scanned, dbCloses, rowsCloses>>

\* rows, err := db.Query("select * from users"); defer rows.Close()
Query ==
    /\ pc = "query"
    /\ \E err \in Errs :
        /\ ops' = Append(ops, "query")
        /\ CheckErr(err, "query", "next")
        /\ rows' = IF err = "nil" THEN "open" ELSE "none"
        /\ result' = IF err = "nil" THEN users ELSE <<>>
        /\ defers' = IF pc' = "next" THEN Append(defers, "rows") ELSE defers
    /\ pos' = 0
    /\ lasterr' = "nil"
    /\ UNCHANGED <<db, res, numAffected, lastInsertId, u, stdout, users,
                   autoInc, numCols, runs, usersAtStart, decoded, scanned, dbCloses,
                   rowsCloses>>

\* for rows.Next(): true with the cursor on the next row, or false when there
\* is no next row or a fault happened preparing it.  When Next returns false
\* the Rows are closed automatically.
Next_ ==
    /\ pc = "next"
    /\ ops' = Append(ops, "next")
    /\ \E fault \in BOOLEAN :
        LET ok == ~fault /\ pos < Len(result)
        IN  /\ pos' = IF ok THEN pos + 1 ELSE pos
            /\ lasterr' = IF fault THEN "err" ELSE lasterr
            /\ rows' = IF ok THEN rows ELSE "closed"
            /\ rowsCloses' = IF ~ok /\ rows = "open" THEN rowsCloses + 1
                             ELSE rowsCloses
            /\ pc' = LoopBranch(ok)
    /\ UNCHANGED <<db, defers, res, numAffected, lastInsertId, result, u,
                   stdout, exitCode, users, autoInc, numCols, runs, failed,
                   usersAtStart, decoded, scanned, dbCloses>>

\* u := new(User); if err := rows.Scan(&u.Id, &u.Username, &u.Password) ...
Scan ==
    /\ pc = "scan"
    /\ \E convErr \in Errs :
        LET row == CurrentRow(result, pos)
            err == ScanErr(row, convErr)
        IN  /\ ops' = Append(ops, "scan")
            /\ CheckErr(err, "scan", "printUser")
            /\ u' = IF err = "nil" THEN ScanRow(row)
                    ELSE [Id |-> 0, Username |-> "", Password |-> ""]
            /\ decoded' = IF err = "nil" THEN Append(decoded, ScanRow(row))
                          ELSE decoded
            /\ scanned' = Append(scanned, [cols |-> Len(row), conv |-> convErr,
                                           err |-> err])
    /\ UNCHANGED <<db, rows, defers, res, numAffected, lastInsertId, result,
                   pos, lasterr, stdout, users, autoInc, numCols, runs,
                   usersAtStart, dbCloses, rowsCloses>>

\* fmt.Println(u)
PrintUser ==
    /\ pc = "printUser"
    /\ ops' = Append(ops, "printUser")
    /\ stdout' = Append(stdout, FormatUser(u))
    /\ pc' = "next"
    /\ UNCHANGED <<db, rows, defers, res, numAffected, lastInsertId, result,
                   pos, lasterr, u, exitCode, users, autoInc, numCols, runs,
                   failed, usersAtStart, decoded, scanned, dbCloses, rowsCloses>>

\* if err := rows.Err(); err != nil { log.Fatalln(err) }
CheckRowsErr ==
    /\ pc = "rowsErr"
    /\ ops' = Append(ops, "rowsErr")
    /\ CheckErr(RowsErr(lasterr), "rowsErr", "return")
    /\ UNCHANGED <<db, rows, defers, res, numAffected, lastInsertId, result,
                   pos, lasterr, u, stdout, users, autoInc, numCols, runs,
                   usersAtStart, decoded, scanned, dbCloses, rowsCloses>>

\* main returns: the deferred calls run one at a time.  rows.Close is
\* idempotent: on a cursor that is already closed it does nothing.
RunDeferred ==
    /\ pc = "return"
    /\ defers # <<>>
    /\ LET i == NextDeferred(defers)
           call == defers[i]
       IN  /\ defers' = [j \in 1..(Len(defers) - 1) |->
                            IF j < i THEN defers[j] ELSE defers[j + 1]]
           /\ IF call = "rows"
              THEN /\ ops' = Append(ops, "rowsClose")
                   /\ rows' = "closed"
                   /\ rowsCloses' = IF rows = "open" THEN rowsCloses + 1
                                    ELSE rowsCloses
                   /\ UNCHANGED <<db, dbCloses>>
              ELSE /\ ops' = Append(ops, "dbClose")
                   /\ db' = "closed"
                   /\ dbCloses' = IF db = "open" THEN dbCloses + 1 ELSE dbCloses
                   /\ UNCHANGED <<rows, rowsCloses>>
    /\ UNCHANGED <<pc, res, numAffected, lastInsertId, result, pos, lasterr,
                   u, stdout, exitCode, users, autoInc, numCols, runs, failed,
                   usersAtStart, decoded, scanned>>

\* The last deferred call has run: the process ends normally.
Exit ==
    /\ pc = "return"
    /\ defers = <<>>
    /\ pc' = "done"
    /\ exitCode' = 0
    /\ UNCHANGED <<db, rows, defers, res, numAffected, lastInsertId, result,
                   pos, lasterr, u, stdout, users, autoInc, numCols, runs, ops,
                   failed, usersAtStart, decoded, scanned, dbCloses, rowsCloses>>

\* The program is started again: a new process against the same database.
Restart ==
    /\ pc \in {"done", "fatal"}
    /\ runs < MaxRuns
    /\ runs' = runs + 1
    /\ pc' = "open"
    /\ db' = "none"
    /\ rows' = "none"
    /\ defers' = <<>>
    /\ res' = NoRes
    /\ numAffected' = 0
    /\ lastInsertId' = 0
    /\ result' = <<>>
    /\ pos' = 0
    /\ lasterr' = "nil"
    /\ u' = [Id |-> 0, Username |-> "", Password |-> ""]
    /\ stdout' = <<>>
    /\ exitCode' = -1
    /\ ops' = <<>>
    /\ failed' = "none"
    /\ usersAtStart' = users
    /\ decoded' = <<>>
    /\ scanned' = <<>>
    /\ dbCloses' = 0
    /\ rowsCloses' = 0
    /\ UNCHANGED <<users, autoInc, numCols>>

Next ==
    \/ Open
    \/ Ping
    \/ Exec
    \/ RowsAffected
    \/ PrintAffected
    \/ LastInsertId
    \/ PrintId
    \/ Query
    \/ Next_
    \/ Scan
    \/ PrintUser
    \/ CheckRowsErr
    \/ RunDeferred
    \/ Exit
    \/ Restart

Spec == Init /\ [][Next]_vars

----------------------------------------------------------------------------
TypeOK ==
    /\ pc \in {"open", "ping", "exec", "rowsAffected", "printAffected",
               "lastInsertId", "printId", "query", "next", "scan", "printUser",
               "rowsErr", "return", "done", "fatal"}
    /\ db \in {"none", "open", "closed"}
    /\ rows \in {"none", "open", "closed"}
    /\ lasterr \in Errs
    /\ exitCode \in {-1, 0, 1}
    /\ pos \in 0..Len(result)
    /\ runs \in 1..MaxRuns

Ended == pc \in {"done", "fatal"}

----------------------------------------------------------------------------
\* Properties

IsPrefix(s, t) == Len(s) <= Len(t) /\ \A i \in 1..Len(s) : s[i] = t[i]

\* The index of the first occurrence of op in ops, 0 when it does not occur.
IndexOf(op) ==
    IF \E i \in 1..Len(ops) : ops[i] = op
    THEN CHOOSE i \in 1..Len(ops) : ops[i] = op /\ \A j \in 1..(i - 1) : ops[j] # op
    ELSE 0

\* C1: once the handle was obtained, the process does not end, normally or
\* by a fatal error, without the handle having been released exactly once.
C1_ConnReleasedOnEveryExit ==
    /\ dbCloses <= 1
    /\ (Ended /\ db # "none") => (db = "closed" /\ dbCloses = 1)

\* C2: once Query has returned a cursor, the process does not end without
\* the cursor having been released exactly once, whether the loop ended by
\* exhaustion, by a decode failure or by an iteration fault.
C2_CursorReleasedOnEveryExit ==
    /\ rowsCloses <= 1
    /\ (Ended /\ rows # "none") => (rows = "closed" /\ rowsCloses = 1)

\* The calls that may directly follow each call of main.
Follows ==
    {<<"open", "ping">>, <<"ping", "exec">>, <<"exec", "rowsAffected">>,
     <<"rowsAffected", "printAffected">>, <<"printAffected", "lastInsertId">>,
     <<"lastInsertId", "printId">>, <<"printId", "query">>, <<"query", "next">>,
     <<"next", "scan">>, <<"scan", "printUser">>, <<"printUser", "next">>,
     <<"next", "rowsErr">>, <<"rowsErr", "rowsClose">>, <<"rowsClose", "dbClose">>}

\* C3: the calls of a run are made in the order connect, ping, insert,
\* report, query, iterate and decode, check the iteration error, release;
\* the first call that fails is the last call and the last output of the
\* run, which ends with a fatal exit.
C3_StrictOrderFailFast ==
    /\ ops # <<>> => ops[1] = "open"
    /\ \A i \in 1..(Len(ops) - 1) : <<ops[i], ops[i + 1]>> \in Follows
    /\ failed # "none" =>
          /\ ops[Len(ops)] = failed
          /\ pc = "fatal"
          /\ exitCode = 1
    /\ pc = "done" => ops[Len(ops)] = "dbClose"

C3_Witness ==
    /\ failed = "scan"
    /\ pc = "fatal"
    /\ Len(stdout) >= 3

\* C4: the connection is never released while the cursor is open, and in a
\* run that releases both the cursor's release comes before the
\* connection's.
C4_CursorBeforeConn ==
    /\ db = "closed" => rows # "open"
    /\ (IndexOf("dbClose") > 0 /\ IndexOf("query") > 0 /\ rows = "closed") =>
          /\ IndexOf("rowsClose") > 0
          /\ IndexOf("rowsClose") < IndexOf("dbClose")

C4_Witness ==
    /\ pc = "done"
    /\ db = "closed"
    /\ rows = "closed"
    /\ IndexOf("rowsClose") > 0

\* C5: a run that gets past the post-loop check stopped iterating because
\* the cursor was exhausted; a run whose cursor stopped on a fault ends at
\* the post-loop check with a fatal exit.
C5_FaultNeverTakenForExhaustion ==
    /\ pc \in {"return", "done"} => (lasterr = "nil" /\ pos = Len(result))
    /\ (lasterr = "err" /\ pc # "rowsErr") =>
          (pc = "fatal" /\ failed = "rowsErr" /\ exitCode = 1)

C5_Witness ==
    /\ lasterr = "err"
    /\ pc = "fatal"
    /\ failed = "rowsErr"
    /\ pos < Len(result)

\* C6: a run that fails at connect, at the ping or at the execution of the
\* insert leaves the users table as it found it, and after a failed ping no
\* insert is attempted.
C6_EarlyFailureLeavesTable ==
    /\ failed \in {"open", "ping", "exec"} => users = usersAtStart
    /\ failed \in {"open", "ping"} => IndexOf("exec") = 0

C6_Witness ==
    /\ failed = "ping"
    /\ pc = "fatal"
    /\ Len(users) >= 1

\* C7: a run that starts on an empty users table and in which no step fails
\* reports rows affected 1 and last inserted id 1, and decodes exactly one
\* record, {1, radovskyb, password123}.
C7_EmptyTableScenario ==
    (pc = "done" /\ usersAtStart = <<>>) =>
        /\ numAffected = 1
        /\ lastInsertId = 1
        /\ decoded = <<[Id |-> 1, Username |-> "radovskyb",
                        Password |-> "password123"]>>
        /\ stdout = << <<"1">>, <<"1">>,
                       <<"&{", "1", " ", "radovskyb", " ", "password123", "}">> >>

C7_Witness ==
    /\ pc = "done"
    /\ usersAtStart = <<>>
    /\ Len(decoded) = 1

\* The output of a complete run: the two lines of the insert outcome, then
\* one line for every row of the query result, in cursor order.
ExpectedOut ==
    IF IndexOf("exec") = 0 \/ failed = "exec" THEN <<>>
    ELSE <<FormatInt(res.rowsAffected), FormatInt(res.lastInsertId)>>
         \o [i \in 1..Len(result) |-> FormatUser(ScanRow(result[i]))]

\* C8: the standard output of a run is always a prefix of the complete
\* output, and a run that ends normally has printed all of it.
C8_StdoutPrefix ==
    /\ IsPrefix(stdout, ExpectedOut)
    /\ pc = "done" => stdout = ExpectedOut

C8_Witness ==
    /\ pc = "done"
    /\ Len(result) >= 2
    /\ Len(stdout) = 2 + Len(result)

\* The number of calls of op made so far in this run.
NumOps(op) == Cardinality({i \in 1..Len(ops) : ops[i] = op})

\* C9: a Scan succeeds exactly when the row has three columns and every
\* column converts; a row with another column count ends the run with a
\* fatal error, and every record decoded and printed is the three columns
\* of its row, with no line printed for a row that failed to decode.
C9_DecodeIffThreeColumns ==
    /\ \A i \in 1..Len(scanned) :
          /\ scanned[i].cols = Len(result[i])
          /\ scanned[i].err = "nil" <=>
                (scanned[i].cols = 3 /\ scanned[i].conv = "nil")
          /\ scanned[i].err # "nil" =>
                (i = Len(scanned) /\ pc = "fatal" /\ failed = "scan")
    /\ \A i \in 1..Len(decoded) :
          /\ Len(result[i]) = 3
          /\ decoded[i] = [Id |-> result[i][1], Username |-> result[i][2],
                           Password |-> result[i][3]]
    /\ failed = "scan" =>
          /\ Len(decoded) = pos - 1
          /\ Len(stdout) = 2 + pos - 1
    /\ NumOps("printUser") <= Len(decoded)

C9_Witness ==
    /\ failed = "scan"
    /\ pc = "fatal"
    /\ Len(result[pos]) = 4
    /\ scanned[Len(scanned)].conv = "nil"

\* C10: every Scan directly follows a Next that returned true on the open
\* cursor, every such Next is followed by at most one Scan, and a cursor
\* that has been released is neither advanced nor decoded.
C10_ScanOnlyAfterTrueNext ==
    /\ \A i \in 1..Len(ops) :
          ops[i] = "scan" => (i > 1 /\ ops[i - 1] = "next")
    /\ NumOps("scan") = IF pc = "scan" THEN pos - 1 ELSE pos
    /\ pc = "scan" => (pos \in 1..Len(result) /\ ops[Len(ops)] = "next")
    /\ pc \in {"next", "scan", "printUser"} => rows = "open"
    /\ rows = "closed" => pc \in {"rowsErr", "return", "done", "fatal"}

C10_Witness ==
    /\ NumOps("scan") >= 2
    /\ rows = "closed"
    /\ pc = "done"

====
